---- MODULE Spec2Model ----
(***************************************************************************)
(* Model of packages/firestore/src/api/user_data_writer.ts: the recursive  *)
(* decoder AbstractUserDataWriter.convertValue and its three concrete      *)
(* subclasses UserDataWriter, ExpUserDataWriter and LiteUserDataWriter.    *)
(*                                                                         *)
(* JavaScript values are tagged records (field t names the JS type) so     *)
(* that values of different types can be compared.  A JS string is the     *)
(* sequence of its characters.  A JS object is a TLA+ function from        *)
(* property names to values; "k in obj" is k \in DOMAIN obj.               *)
(*                                                                         *)
(* A call that throws is modelled by an outcome record with ok = FALSE;    *)
(* the diagnostics written with logError before the throw stay in log.     *)
(***************************************************************************)
EXTENDS Integers, Sequences, FiniteSets, TLC

VARIABLES
    writer,      \* the decoder instance: its class and its firestore._databaseId
    value,       \* the ProtoValue handed to convertValue
    behaviorArg, \* the serverTimestampBehavior argument, "undefined" when omitted
    enumOrder,   \* the order in which for..in enumerates own property names
    pc,          \* "ready", "returned" or "thrown"
    result,      \* the value convertValue returned (Undefined until then)
    log          \* the messages handed to logError, in order

vars == <<writer, value, behaviorArg, enumOrder, pc, result, log>>

---------------------------------------------------------------------------
(* Bounds of the model *)

MaxArrayLen == 2   \* longest arrayValue.values built over the element alphabet
MaxChain == 2      \* deepest nesting of pending writes inside __previous_value__
MaxNum == 2        \* largest numeric payload

---------------------------------------------------------------------------
(* JavaScript primitives *)

Undefined == [t |-> "undefined"]
JsNull == [t |-> "null"]
JsBool(b) == [t |-> "boolean", b |-> b]
JsNumber(n) == [t |-> "number", n |-> n, nan |-> FALSE]
NaN == [t |-> "number", n |-> 0, nan |-> TRUE]
JsString(chars) == [t |-> "string", s |-> chars]
JsArray(elems) == [t |-> "array", elems |-> elems]
JsObject(props) == [t |-> "object", props |-> props]
EmptyProps == [k \in {} |-> Undefined]

\* obj.name, undefined when the property is absent
Get(obj, name) == IF name \in DOMAIN obj THEN obj[name] ELSE Undefined

\* ToBoolean(v) = false
Falsy(v) ==
    \/ v.t \in {"undefined", "null"}
    \/ v.t = "boolean" /\ ~v.b
    \/ v.t = "number" /\ (v.nan \/ v.n = 0)
    \/ v.t = "string" /\ v.s = <<>>

\* a || b
Or(a, b) == IF Falsy(a) THEN b ELSE a

\* a == null
LooseNull(v) == v.t \in {"undefined", "null"}

Digits == <<"0", "1", "2", "3", "4", "5", "6", "7", "8", "9">>

IsDigit(c) == \E i \in 1..Len(Digits) : Digits[i] = c

DigitVal(c) == (CHOOSE i \in 1..Len(Digits) : Digits[i] = c) - 1

RECURSIVE DigitsVal(_)
DigitsVal(s) ==
    IF s = <<>> THEN 0
    ELSE 10 * DigitsVal(SubSeq(s, 1, Len(s) - 1)) + DigitVal(s[Len(s)])

AllDigits(s) == \A i \in 1..Len(s) : IsDigit(s[i])

\* Number(s) for a string s: "" is 0, a decimal integer literal is its value,
\* anything else is NaN
ToNumber(s) ==
    IF s = <<>> THEN JsNumber(0)
    ELSE IF AllDigits(s) THEN JsNumber(DigitsVal(s))
    ELSE IF s[1] = "-" /\ Len(s) > 1 /\ AllDigits(Tail(s))
         THEN JsNumber(0 - DigitsVal(Tail(s)))
    ELSE NaN

---------------------------------------------------------------------------
(* model/values.ts, model/server_timestamps.ts, util/byte_string.ts *)

normalizeNumber(v) ==
    IF v.t = "number" THEN v
    ELSE IF v.t = "string" THEN ToNumber(v.s)
    ELSE JsNumber(0)

\* the proto object form {seconds, nanos} of a timestamp
normalizeTimestamp(date) ==
    [seconds |-> normalizeNumber(Get(date, "seconds")),
     nanos |-> normalizeNumber(Get(date, "nanos"))]

B64Alphabet ==
    <<"A", "B", "C", "D", "E", "F", "G", "H", "I", "J", "K", "L", "M",
      "N", "O", "P", "Q", "R", "S", "T", "U", "V", "W", "X", "Y", "Z",
      "a", "b", "c", "d", "e", "f", "g", "h", "i", "j", "k", "l", "m",
      "n", "o", "p", "q", "r", "s", "t", "u", "v", "w", "x", "y", "z",
      "0", "1", "2", "3", "4", "5", "6", "7", "8", "9", "+", "/">>

B64Val(c) ==
    IF c = "=" THEN 0
    ELSE (CHOOSE i \in 1..Len(B64Alphabet) : B64Alphabet[i] = c) - 1

\* the bytes of one group of four base64 characters
B64Group(q) ==
    LET n == ((B64Val(q[1]) * 64 + B64Val(q[2])) * 64 + B64Val(q[3])) * 64
             + B64Val(q[4])
        all == <<n \div 65536, (n \div 256) % 256, n % 256>>
        pad == IF q[3] = "=" THEN 2 ELSE IF q[4] = "=" THEN 1 ELSE 0
    IN SubSeq(all, 1, 3 - pad)

RECURSIVE atob(_)
atob(s) ==
    IF Len(s) < 4 THEN <<>>
    ELSE B64Group(SubSeq(s, 1, 4)) \o atob(SubSeq(s, 5, Len(s)))

ByteString(bytes) == [t |-> "ByteString", bytes |-> bytes]

\* a base64 string (JSON transport) or a Uint8Array (proto transport)
normalizeByteString(blob) ==
    IF blob.t = "string" THEN ByteString(atob(blob.s))
    ELSE ByteString(blob.bytes)

TYPE_KEY == "__type__"
PREVIOUS_VALUE_KEY == "__previous_value__"
LOCAL_WRITE_TIME_KEY == "__local_write_time__"
SERVER_TIMESTAMP_SENTINEL ==
    <<"s", "e", "r", "v", "e", "r", "_", "t", "i", "m", "e", "s", "t", "a", "m", "p">>

\* value?.mapValue?.fields
FieldsOf(v) ==
    IF v.t # "object" THEN Undefined
    ELSE LET m == Get(v.props, "mapValue")
         IN IF m.t = "undefined" THEN Undefined ELSE Get(m.props, "fields")

isServerTimestamp(v) ==
    LET fields == Or(FieldsOf(v), JsObject(EmptyProps))
        typ == Get(fields.props, TYPE_KEY)
    IN /\ typ.t = "object"
       /\ Get(typ.props, "stringValue") = JsString(SERVER_TIMESTAMP_SENTINEL)

RECURSIVE getPreviousValue(_)
getPreviousValue(v) ==
    LET previousValue == Get(v.props.mapValue.props.fields.props, PREVIOUS_VALUE_KEY)
    IN IF isServerTimestamp(previousValue)
       THEN getPreviousValue(previousValue)
       ELSE previousValue

getLocalWriteTime(v) ==
    LET t == normalizeTimestamp(
                v.props.mapValue.props.fields.props[LOCAL_WRITE_TIME_KEY].props.timestampValue.props)
    IN [seconds |-> t.seconds, nanos |-> t.nanos]

typeOrder(v) ==
    LET has(name) == name \in DOMAIN v.props
    IN IF has("nullValue") THEN "NullValue"
       ELSE IF has("booleanValue") THEN "BooleanValue"
       ELSE IF has("integerValue") \/ has("doubleValue") THEN "NumberValue"
       ELSE IF has("timestampValue") THEN "TimestampValue"
       ELSE IF has("stringValue") THEN "StringValue"
       ELSE IF has("bytesValue") THEN "BlobValue"
       ELSE IF has("referenceValue") THEN "RefValue"
       ELSE IF has("geoPointValue") THEN "GeoPointValue"
       ELSE IF has("arrayValue") THEN "ArrayValue"
       ELSE IF has("mapValue")
            THEN IF isServerTimestamp(v) THEN "ServerTimestampValue"
                 ELSE "ObjectValue"
       ELSE "fail"

---------------------------------------------------------------------------
(* model/path.ts, core/database_info.ts, model/document_key.ts,            *)
(* remote/serializer.ts                                                    *)

Slash == "/"

\* path.indexOf('//') >= 0
HasDoubleSlash(s) == \E i \in 1..(Len(s) - 1) : s[i] = Slash /\ s[i + 1] = Slash

\* path.split('/'): the pieces between separators, empty pieces included
RECURSIVE split(_, _)
split(s, cur) ==
    IF s = <<>> THEN <<cur>>
    ELSE IF s[1] = Slash THEN <<cur>> \o split(Tail(s), <<>>)
    ELSE split(Tail(s), Append(cur, s[1]))

BasePath(segments, offset, len) ==
    [segments |-> segments, offset |-> offset, len |-> len]

\* ResourcePath.fromString: rejects '//', drops the empty pieces that a
\* leading or trailing slash leaves
fromString(path) ==
    IF HasDoubleSlash(path) THEN [ok |-> FALSE, path |-> BasePath(<<>>, 0, 0)]
    ELSE LET segments == SelectSeq(split(path, <<>>), LAMBDA seg : Len(seg) > 0)
         IN [ok |-> TRUE, path |-> BasePath(segments, 0, Len(segments))]

get(path, index) == path.segments[path.offset + index + 1]

popFirst(path, size) ==
    BasePath(path.segments, path.offset + size, path.len - size)

toArray(path) == SubSeq(path.segments, path.offset + 1, path.offset + path.len)

S_projects == <<"p", "r", "o", "j", "e", "c", "t", "s">>
S_databases == <<"d", "a", "t", "a", "b", "a", "s", "e", "s">>
S_documents == <<"d", "o", "c", "u", "m", "e", "n", "t", "s">>

\* projects/{project}/databases/{database}/documents/{collection}/{doc}...
isValidResourceName(path) ==
    /\ path.len > 5
    /\ (path.len - 5) % 2 = 0
    /\ get(path, 0) = S_projects
    /\ get(path, 2) = S_databases
    /\ get(path, 4) = S_documents

DatabaseId(projectId, database) ==
    [t |-> "DatabaseId", projectId |-> projectId, database |-> database]

isEqual(a, b) ==
    b.t = "DatabaseId" /\ b.projectId = a.projectId /\ b.database = a.database

DocumentKey(path) == [t |-> "DocumentKey", path |-> path]

---------------------------------------------------------------------------
(* Outcomes of a call: a returned value or a thrown error, with the        *)
(* diagnostics logged on the way                                           *)

Return(v) == [ok |-> TRUE, val |-> v, log |-> <<>>, err |-> "none"]
Throw(e) == [ok |-> FALSE, val |-> Undefined, log |-> <<>>, err |-> e]
AfterLog(earlier, out) == [out EXCEPT !.log = earlier \o @]

\* for (const key in obj) over own properties, in the engine's order
OwnKeys(props) == SelectSeq(enumOrder, LAMBDA k : k \in DOMAIN props)

---------------------------------------------------------------------------
(* api/user_data_writer.ts *)

convertTimestamp(ts) ==
    LET normalizedValue == normalizeTimestamp(ts)
    IN [t |-> "Timestamp", seconds |-> normalizedValue.seconds,
        nanoseconds |-> normalizedValue.nanos]

convertGeoPoint(g) ==
    [t |-> "GeoPoint", latitude |-> normalizeNumber(Get(g, "latitude")),
     longitude |-> normalizeNumber(Get(g, "longitude"))]

logEntry(key, databaseId, expectedDatabaseId) ==
    [document |-> key, found |-> databaseId, expected |-> expectedDatabaseId]

\* a reference into another database is treated as a contract violation
convertDocumentKey_rejectsForeign(name, expectedDatabaseId) ==
    LET parsed == fromString(name.s)
        resourcePath == parsed.path
    IN IF ~parsed.ok THEN Throw("Invalid path")
       ELSE IF ~isValidResourceName(resourcePath)
            THEN Throw("ReferenceValue is not valid")
       ELSE LET databaseId == DatabaseId(get(resourcePath, 1), get(resourcePath, 3))
                key == DocumentKey(popFirst(resourcePath, 5))
            IN IF ~isEqual(databaseId, expectedDatabaseId)
               THEN Throw("ReferenceValue is in a different database")
               ELSE Return(key)

\* the comparison of the two identities is inverted
convertDocumentKey_logsEqual(name, expectedDatabaseId) ==
    LET parsed == fromString(name.s)
        resourcePath == parsed.path
    IN IF ~parsed.ok THEN Throw("Invalid path")
       ELSE IF ~isValidResourceName(resourcePath)
            THEN Throw("ReferenceValue is not valid")
       ELSE LET databaseId == DatabaseId(get(resourcePath, 1), get(resourcePath, 3))
                key == DocumentKey(popFirst(resourcePath, 5))
            IN IF isEqual(databaseId, expectedDatabaseId)
               THEN AfterLog(<<logEntry(key, databaseId, expectedDatabaseId)>>,
                             Return(key))
               ELSE Return(key)

convertDocumentKey(name, expectedDatabaseId) ==
    LET parsed == fromString(name.s)
        resourcePath == parsed.path
    IN IF ~parsed.ok THEN Throw("Invalid path")
       ELSE IF ~isValidResourceName(resourcePath)
            THEN Throw("ReferenceValue is not valid")
       ELSE LET databaseId == DatabaseId(get(resourcePath, 1), get(resourcePath, 3))
                key == DocumentKey(popFirst(resourcePath, 5))
            IN IF ~isEqual(databaseId, expectedDatabaseId)
               THEN AfterLog(<<logEntry(key, databaseId, expectedDatabaseId)>>,
                             Return(key))
               ELSE Return(key)

UserDataWriter_convertBytes(this, bytes) == [t |-> "Blob", byteString |-> bytes]

UserDataWriter_convertReference(this, name) ==
    LET key == convertDocumentKey(name, this.firestore.databaseId)
    IN IF ~key.ok THEN key
       ELSE [key EXCEPT !.val = [t |-> "DocumentReference", key |-> key.val,
                                 firestore |-> this.firestore, converter |-> JsNull]]

ExpUserDataWriter_convertBytes(this, bytes) == [t |-> "Bytes", byteString |-> bytes]

ExpUserDataWriter_convertReference(this, name) ==
    LET key == convertDocumentKey(name, this.firestore.databaseId)
    IN IF ~key.ok THEN key
       ELSE [key EXCEPT !.val = [t |-> "ExpDocumentReference", key |-> key.val,
                                 firestore |-> this.firestore, converter |-> JsNull]]

LiteUserDataWriter_convertBytes(this, bytes) == [t |-> "Bytes", byteString |-> bytes]

\* the key is built without convertDocumentKey's validation and comparison
LiteUserDataWriter_convertReference_unchecked(this, name) ==
    LET key == DocumentKey(popFirst(fromString(name.s).path, 5))
    IN Return([t |-> "LiteDocumentReference", key |-> key,
               firestore |-> this.firestore, converter |-> JsNull])

LiteUserDataWriter_convertReference(this, name) ==
    LET key == convertDocumentKey(name, this.firestore.databaseId)
    IN IF ~key.ok THEN key
       ELSE [key EXCEPT !.val = [t |-> "LiteDocumentReference", key |-> key.val,
                                 firestore |-> this.firestore, converter |-> JsNull]]

\* dynamic dispatch of the two abstract methods
convertBytes(this, bytes) ==
    CASE this.class = "UserDataWriter" -> UserDataWriter_convertBytes(this, bytes)
      [] this.class = "ExpUserDataWriter" -> ExpUserDataWriter_convertBytes(this, bytes)
      [] this.class = "LiteUserDataWriter" -> LiteUserDataWriter_convertBytes(this, bytes)

convertReference(this, name) ==
    CASE this.class = "UserDataWriter" -> UserDataWriter_convertReference(this, name)
      [] this.class = "ExpUserDataWriter" -> ExpUserDataWriter_convertReference(this, name)
      [] this.class = "LiteUserDataWriter" -> LiteUserDataWriter_convertReference(this, name)

RECURSIVE convertValue(_, _, _)
RECURSIVE mapValues(_, _, _)
RECURSIVE forEachField(_, _, _, _, _)

\* only the integer variant is read
numberOperand_integerOnly(p) == Get(p, "integerValue")

\* value.integerValue || value.doubleValue
numberOperand(p) == Or(Get(p, "integerValue"), Get(p, "doubleValue"))

\* an element that cannot be decoded is left out instead of aborting the call
mapValues_skipsFailures(this, values, serverTimestampBehavior) ==
    IF values = <<>> THEN Return(JsArray(<<>>))
    ELSE LET first == convertValue(this, values[1], serverTimestampBehavior)
             rest == mapValues(this, Tail(values), serverTimestampBehavior)
         IN IF ~first.ok THEN rest
            ELSE IF ~rest.ok THEN AfterLog(first.log, rest)
            ELSE AfterLog(first.log,
                    [rest EXCEPT !.val = JsArray(<<first.val>> \o @.elems)])

\* the policy is not handed on: .map(value => this.convertValue(value))
mapValues_dropsPolicy(this, values, serverTimestampBehavior) ==
    IF values = <<>> THEN Return(JsArray(<<>>))
    ELSE LET first == convertValue(this, values[1], "undefined")
         IN IF ~first.ok THEN first
            ELSE LET rest == mapValues(this, Tail(values), serverTimestampBehavior)
                 IN IF ~rest.ok THEN AfterLog(first.log, rest)
                    ELSE AfterLog(first.log,
                            [rest EXCEPT !.val = JsArray(<<first.val>> \o @.elems)])

\* (values).map(value => this.convertValue(value, serverTimestampBehavior))
mapValues(this, values, serverTimestampBehavior) ==
    IF values = <<>> THEN Return(JsArray(<<>>))
    ELSE LET first == convertValue(this, values[1], serverTimestampBehavior)
         IN IF ~first.ok THEN first
            ELSE LET rest == mapValues(this, Tail(values), serverTimestampBehavior)
                 IN IF ~rest.ok THEN AfterLog(first.log, rest)
                    ELSE AfterLog(first.log,
                            [rest EXCEPT !.val = JsArray(<<first.val>> \o @.elems)])

convertArray(this, arrayValue, serverTimestampBehavior) ==
    mapValues(this, Or(Get(arrayValue, "values"), JsArray(<<>>)).elems,
              serverTimestampBehavior)

\* each iteration replaces the result instead of adding a property to it
forEachField_replaces(this, fields, keys, serverTimestampBehavior, sofar) ==
    IF keys = <<>> THEN sofar
    ELSE LET key == keys[1]
             out == convertValue(this, fields[key], serverTimestampBehavior)
         IN IF ~out.ok THEN AfterLog(sofar.log, out)
            ELSE forEachField(this, fields, Tail(keys), serverTimestampBehavior,
                    [sofar EXCEPT !.val = JsObject(key :> out.val),
                                  !.log = @ \o out.log])

\* forEach(fields, (key, value) => { result[key] = this.convertValue(...) })
forEachField(this, fields, keys, serverTimestampBehavior, sofar) ==
    IF keys = <<>> THEN sofar
    ELSE LET key == keys[1]
             out == convertValue(this, fields[key], serverTimestampBehavior)
         IN IF ~out.ok THEN AfterLog(sofar.log, out)
            ELSE forEachField(this, fields, Tail(keys), serverTimestampBehavior,
                    [sofar EXCEPT !.val = JsObject((key :> out.val) @@ @.props),
                                  !.log = @ \o out.log])

convertObject(this, mapValue, serverTimestampBehavior) ==
    LET fields == Or(Get(mapValue, "fields"), JsObject(EmptyProps)).props
    IN forEachField(this, fields, OwnKeys(fields), serverTimestampBehavior,
                    Return(JsObject(EmptyProps)))

\* 'previous' is not handled and falls into the default case
convertServerTimestamp_noPrevious(this, v, serverTimestampBehavior) ==
    CASE serverTimestampBehavior = "estimate" ->
            Return(convertTimestamp(getLocalWriteTime(v)))
      [] OTHER -> Return(JsNull)

\* the default case estimates instead of returning null
convertServerTimestamp_defaultEstimates(this, v, serverTimestampBehavior) ==
    CASE serverTimestampBehavior = "previous" ->
            LET previousValue == getPreviousValue(v)
            IN IF LooseNull(previousValue) THEN Return(JsNull)
               ELSE convertValue(this, previousValue, serverTimestampBehavior)
      [] OTHER -> Return(convertTimestamp(getLocalWriteTime(v)))

\* 'estimate' prefers the previous value when there is one
convertServerTimestamp_estimateUsesPrevious(this, v, serverTimestampBehavior) ==
    CASE serverTimestampBehavior \in {"previous", "estimate"} ->
            LET previousValue == getPreviousValue(v)
            IN IF LooseNull(previousValue)
               THEN IF serverTimestampBehavior = "estimate"
                    THEN Return(convertTimestamp(getLocalWriteTime(v)))
                    ELSE Return(JsNull)
               ELSE convertValue(this, previousValue, serverTimestampBehavior)
      [] OTHER -> Return(JsNull)

convertServerTimestamp(this, v, serverTimestampBehavior) ==
    CASE serverTimestampBehavior = "previous" ->
            LET previousValue == getPreviousValue(v)
            IN IF LooseNull(previousValue) THEN Return(JsNull)
               ELSE convertValue(this, previousValue, serverTimestampBehavior)
      [] serverTimestampBehavior = "estimate" ->
            Return(convertTimestamp(getLocalWriteTime(v)))
      [] OTHER -> Return(JsNull)

convertValue(this, v, behavior) ==
    LET serverTimestampBehavior == IF behavior = "undefined" THEN "none" ELSE behavior
        order == typeOrder(v)
        p == v.props
    IN CASE order = "NullValue" -> Return(JsNull)
         [] order = "BooleanValue" -> Return(p.booleanValue)
         [] order = "NumberValue" ->
                Return(normalizeNumber(numberOperand(p)))
         [] order = "TimestampValue" -> Return(convertTimestamp(p.timestampValue.props))
         [] order = "ServerTimestampValue" ->
                convertServerTimestamp(this, v, serverTimestampBehavior)
         [] order = "StringValue" -> Return(p.stringValue)
         [] order = "BlobValue" ->
                Return(convertBytes(this, normalizeByteString(p.bytesValue)))
         [] order = "RefValue" -> convertReference(this, p.referenceValue)
         [] order = "GeoPointValue" -> Return(convertGeoPoint(p.geoPointValue.props))
         [] order = "ArrayValue" ->
                convertArray(this, p.arrayValue.props, serverTimestampBehavior)
         [] order = "ObjectValue" ->
                convertObject(this, p.mapValue.props, serverTimestampBehavior)
         [] OTHER -> Throw("Invalid value type")

---------------------------------------------------------------------------
(* The wire values the decoder is run on *)

RECURSIVE Join(_)
Join(segs) ==
    IF Len(segs) = 0 THEN <<>>
    ELSE IF Len(segs) = 1 THEN segs[1]
    ELSE segs[1] \o <<Slash>> \o Join(Tail(segs))

S_P == <<"P">>
S_Q == <<"Q">>
S_D == <<"D">>
S_D2 == <<"D", "2">>
S_coll == <<"c", "o", "l", "l">>
S_doc == <<"d", "o", "c">>

DocName(project, database, rest) ==
    Join(<<S_projects, project, S_databases, database, S_documents>> \o rest)

NameSameDb == DocName(S_P, S_D, <<S_coll, S_doc>>)
NameOtherDb == DocName(S_P, S_D2, <<S_coll, S_doc>>)
NameOtherProject == DocName(S_Q, S_D, <<S_coll, S_doc>>)
NameNested == <<Slash>> \o DocName(S_P, S_D2, <<S_coll, S_doc, S_coll, S_doc>>) \o <<Slash>>
NameNoDocuments == Join(<<S_projects, S_P, S_databases, S_D, S_coll, S_doc>>)
NameDoubleSlash == Join(<<S_projects, S_P, <<>>, S_databases, S_D, S_documents, S_coll, S_doc>>)
NameDatabaseOnly == Join(<<S_projects, S_P, S_databases, S_D>>)
NameCollection == DocName(S_P, S_D, <<S_coll>>)

GoodNames == {NameSameDb, NameOtherDb, NameOtherProject, NameNested}
BadNames == {NameNoDocuments, NameDoubleSlash, NameDatabaseOnly, NameCollection}

Wire(tag, payload) == JsObject(tag :> payload)

RefValue(name) == Wire("referenceValue", JsString(name))

DigitStr(i) == <<Digits[i + 1]>>

NumberPayloads ==
    {JsNumber(i) : i \in 0..MaxNum} \cup {JsString(DigitStr(i)) : i \in 0..MaxNum}
        \cup {JsString(<<"-">> \o DigitStr(MaxNum))}

IntegerValues == {Wire("integerValue", x) : x \in NumberPayloads}

DoubleValues ==
    {Wire("doubleValue", x) : x \in {JsNumber(i) : i \in (0 - 1)..MaxNum} \cup {NaN}}

TimestampProtos ==
    {[seconds |-> JsNumber(MaxNum), nanos |-> JsNumber(1)],
     [seconds |-> JsString(DigitStr(1))]}

TimestampValues == {Wire("timestampValue", JsObject(ts)) : ts \in TimestampProtos}

StringValues ==
    {Wire("stringValue", JsString(s)) : s \in {<<>>, <<"h", "i">>, DigitStr(1)}}

BytesValues ==
    {Wire("bytesValue", JsString(<<"A", "Q", "I", "=">>)),
     Wire("bytesValue", JsString(<<"/", "w", "=", "=">>)),
     Wire("bytesValue", [t |-> "Uint8Array", bytes |-> <<1, 2>>])}

GeoPointValues ==
    {Wire("geoPointValue", JsObject([latitude |-> JsNumber(1), longitude |-> JsNumber(MaxNum)])),
     Wire("geoPointValue", JsObject([latitude |-> JsNumber(1)]))}

\* values that carry none of the known tags
InvalidValues == {JsObject(EmptyProps), Wire("unknownValue", JsNull)}

NullValue == Wire("nullValue", JsString(<<"N", "U", "L", "L", "_", "V", "A", "L", "U", "E">>))

BooleanValues == {Wire("booleanValue", JsBool(b)) : b \in BOOLEAN}

Scalars == {NullValue} \cup BooleanValues \cup IntegerValues \cup DoubleValues \cup StringValues

Leaves ==
    Scalars \cup TimestampValues \cup BytesValues \cup GeoPointValues \cup InvalidValues
        \cup {RefValue(n) : n \in GoodNames \cup BadNames}

ArrayOf(values) == Wire("arrayValue", JsObject([values |-> JsArray(values)]))
ArrayNoValues == Wire("arrayValue", JsObject(EmptyProps))
MapOf(fields) == Wire("mapValue", JsObject([fields |-> JsObject(fields)]))
MapNoFields == Wire("mapValue", JsObject(EmptyProps))

\* the wrapper that a pending serverTimestamp() write leaves in the local view
ServerTimestamp(localWriteTime, previousValue) ==
    LET base == (TYPE_KEY :> Wire("stringValue", JsString(SERVER_TIMESTAMP_SENTINEL)))
                @@ (LOCAL_WRITE_TIME_KEY :> Wire("timestampValue", JsObject(localWriteTime)))
    IN MapOf(IF previousValue = Undefined THEN base
             ELSE (PREVIOUS_VALUE_KEY :> previousValue) @@ base)

FieldNames == {"a", "b"}

SeqsUpTo(S, n) == UNION {[1..k -> S] : k \in 0..n}

MapsOver(S) == UNION {[ks -> S] : ks \in SUBSET FieldNames}

\* values a pending write may have replaced
Replaced ==
    {Undefined, Wire("integerValue", JsNumber(1)), RefValue(NameOtherDb),
     RefValue(NameNoDocuments), Wire("unknownValue", JsNull),
     ArrayOf(<<ServerTimestamp([seconds |-> JsNumber(1)], Wire("booleanValue", JsBool(TRUE))),
               RefValue(NameOtherProject)>>)}

RECURSIVE Pending(_)
Pending(depth) ==
    {ServerTimestamp(ts, prev) :
        ts \in TimestampProtos,
        prev \in IF depth = 1 THEN Replaced ELSE Pending(depth - 1)}

ServerTimestamps == UNION {Pending(d) : d \in 1..MaxChain}

\* the element alphabet of arrays and maps
Elements ==
    {NullValue, Wire("integerValue", JsNumber(0)), Wire("stringValue", JsString(<<"h", "i">>)),
     RefValue(NameSameDb), RefValue(NameOtherDb), RefValue(NameCollection),
     Wire("unknownValue", JsNull),
     ServerTimestamp([seconds |-> JsNumber(1)], Undefined),
     ServerTimestamp([seconds |-> JsString(DigitStr(1))], RefValue(NameOtherProject))}

Arrays == {ArrayOf(vs) : vs \in SeqsUpTo(Elements, MaxArrayLen)} \cup {ArrayNoValues}

Maps == {MapOf(fs) : fs \in MapsOver(Elements)} \cup {MapNoFields}

\* composite elements of the arrays and maps of nesting depth two
Composites ==
    {ArrayOf(<<RefValue(NameOtherDb),
               ServerTimestamp([seconds |-> JsNumber(1)], Wire("integerValue", JsNumber(1)))>>),
     MapOf([a |-> ServerTimestamp([seconds |-> JsNumber(1)], RefValue(NameOtherDb)),
            b |-> RefValue(NameOtherProject)]),
     MapOf([b |-> Wire("unknownValue", JsNull)]),
     ArrayOf(<<RefValue(NameNoDocuments)>>),
     Wire("bytesValue", JsString(<<"A", "Q", "I", "=">>)),
     RefValue(NameNested)}

NestedArrays == {ArrayOf(vs) : vs \in SeqsUpTo(Composites, MaxArrayLen)}

NestedMaps == {MapOf(fs) : fs \in MapsOver(Composites)}

Values == Leaves \cup ServerTimestamps \cup Arrays \cup Maps \cup NestedArrays \cup NestedMaps

Behaviors == {"estimate", "previous", "none", "undefined"}

Classes == {"UserDataWriter", "ExpUserDataWriter", "LiteUserDataWriter"}

DatabaseIds == {DatabaseId(S_P, S_D), DatabaseId(S_P, S_D2)}

\* the client instance a writer closes over
FirestoreOf(class, databaseId) ==
    [t |-> CASE class = "UserDataWriter" -> "Firestore"
             [] class = "ExpUserDataWriter" -> "ExpFirebaseFirestore"
             [] class = "LiteUserDataWriter" -> "LiteFirebaseFirestore",
     databaseId |-> databaseId]

Writer(class, databaseId) == [class |-> class, firestore |-> FirestoreOf(class, databaseId)]

EnumOrders == {<<"a", "b">>, <<"b", "a">>}

---------------------------------------------------------------------------
(* The state machine: a writer is constructed, convertValue is called once *)

Init ==
    /\ writer \in {Writer(c, d) : c \in Classes, d \in DatabaseIds}
    /\ value \in Values
    /\ behaviorArg \in Behaviors
    /\ enumOrder \in EnumOrders
    /\ pc = "ready"
    /\ result = Undefined
    /\ log = <<>>

Call(class) ==
    /\ pc = "ready"
    /\ writer.class = class
    /\ LET out == convertValue(writer, value, behaviorArg)
       IN /\ pc' = IF out.ok THEN "returned" ELSE "thrown"
          /\ result' = out.val
          /\ log' = out.log
    /\ UNCHANGED <<writer, value, behaviorArg, enumOrder>>

UserDataWriterCall == Call("UserDataWriter")
ExpUserDataWriterCall == Call("ExpUserDataWriter")
LiteUserDataWriterCall == Call("LiteUserDataWriter")

Next == UserDataWriterCall \/ ExpUserDataWriterCall \/ LiteUserDataWriterCall

Spec == Init /\ [][Next]_vars

---------------------------------------------------------------------------
(* Properties *)

Done == pc # "ready"

\* the policy in force during the call
Behavior == IF behaviorArg = "undefined" THEN "none" ELSE behaviorArg

\* what the call did, in the shape of the operators' outcomes
Outcome == [ok |-> pc = "returned", val |-> result, log |-> log]

Visible(out) == [ok |-> out.ok, val |-> out.val, log |-> out.log]

FieldsIn(w) == Or(Get(w.props.mapValue.props, "fields"), JsObject(EmptyProps)).props

ValuesIn(w) == Or(Get(w.props.arrayValue.props, "values"), JsArray(<<>>)).elems

\* the value a wrapper carries in its own __previous_value__ field
DirectPrevious(w) == Get(FieldsIn(w), PREVIOUS_VALUE_KEY)

\* the first value of a chain of pending writes that is not itself pending
RECURSIVE FirstConcrete(_)
FirstConcrete(w) ==
    IF ~isServerTimestamp(w) THEN w
    ELSE IF DirectPrevious(w) = Undefined THEN Undefined
    ELSE FirstConcrete(DirectPrevious(w))

ChainLength(w) ==
    IF ~isServerTimestamp(w) THEN 0
    ELSE IF ~isServerTimestamp(DirectPrevious(w)) THEN 1
    ELSE IF ~isServerTimestamp(DirectPrevious(DirectPrevious(w))) THEN 2
    ELSE 3

PreviousRule(w, out) ==
    /\ DirectPrevious(w) = Undefined => out = Visible(Return(JsNull))
    /\ DirectPrevious(w) # Undefined =>
          out = Visible(convertValue(writer, DirectPrevious(w), "previous"))
    /\ FirstConcrete(w) = Undefined => out = Visible(Return(JsNull))
    /\ FirstConcrete(w) # Undefined =>
          out = Visible(convertValue(writer, FirstConcrete(w), "previous"))

\* C1: under policy 'previous' a server-timestamp wrapper without a previous
\* value decodes to null, and one with a previous value V decodes to what
\* convertValue(V, 'previous') gives; a chain of nested pending writes therefore
\* decodes to the decoding of its first non-pending value, or to null when the
\* chain ends without one.  Checked for the wrapper at the top of the call and
\* for wrappers that are elements of a decoded array.
C1_PreviousResolvesChain ==
    (Done /\ Behavior = "previous") =>
        /\ isServerTimestamp(value) => PreviousRule(value, Outcome)
        /\ (typeOrder(value) = "ArrayValue" /\ pc = "returned") =>
              \A i \in 1..Len(ValuesIn(value)) :
                  isServerTimestamp(ValuesIn(value)[i]) =>
                      PreviousRule(ValuesIn(value)[i],
                                   [ok |-> TRUE, val |-> result.elems[i],
                                    log |-> convertValue(writer, ValuesIn(value)[i],
                                                         "previous").log])

C1_Witness ==
    /\ pc = "returned"
    /\ behaviorArg = "previous"
    /\ ChainLength(value) >= 2
    /\ FirstConcrete(value) # Undefined
    /\ result # JsNull

C1_WitnessNoPrevious ==
    /\ pc = "returned"
    /\ behaviorArg = "previous"
    /\ ChainLength(value) >= 2
    /\ FirstConcrete(value) = Undefined
    /\ result = JsNull

\* every wrapper inside w has null at its place in the decoded value d
RECURSIVE PendingAreNull(_, _)
PendingAreNull(w, d) ==
    LET order == typeOrder(w)
    IN CASE order = "ServerTimestampValue" -> d = JsNull
         [] order = "ArrayValue" ->
                /\ d.t = "array"
                /\ Len(d.elems) = Len(ValuesIn(w))
                /\ \A i \in 1..Len(ValuesIn(w)) : PendingAreNull(ValuesIn(w)[i], d.elems[i])
         [] order = "ObjectValue" ->
                /\ d.t = "object"
                /\ DOMAIN d.props = DOMAIN FieldsIn(w)
                /\ \A k \in DOMAIN FieldsIn(w) : PendingAreNull(FieldsIn(w)[k], d.props[k])
         [] OTHER -> TRUE

\* C2: under policy 'none', also when the policy argument is omitted, every
\* server-timestamp wrapper decodes to null, with or without a previous value,
\* at the top of the call and at any depth inside arrays and maps.
C2_NoneIsNull ==
    (Done /\ behaviorArg \in {"none", "undefined"}) =>
        /\ isServerTimestamp(value) => Outcome = Visible(Return(JsNull))
        /\ pc = "returned" => PendingAreNull(value, result)

C2_Witness ==
    /\ pc = "returned"
    /\ behaviorArg = "undefined"
    /\ typeOrder(value) = "ArrayValue"
    /\ \E i \in 1..Len(ValuesIn(value)) :
          /\ typeOrder(ValuesIn(value)[i]) = "ObjectValue"
          /\ \E k \in DOMAIN FieldsIn(ValuesIn(value)[i]) :
                /\ isServerTimestamp(FieldsIn(ValuesIn(value)[i])[k])
                /\ DirectPrevious(FieldsIn(ValuesIn(value)[i])[k]) # Undefined
                /\ result.elems[i].props[k] = JsNull

\* the wrapper's own __local_write_time__ proto
LocalWriteTime(w) == FieldsIn(w)[LOCAL_WRITE_TIME_KEY].props.timestampValue.props

\* the wrapper with its __previous_value__ replaced by prev
WithPrevious(w, prev) == ServerTimestamp(LocalWriteTime(w), prev)

\* C3: under policy 'estimate' a server-timestamp wrapper decodes to a
\* Timestamp whose seconds and nanoseconds are those of the wrapper's own local
\* write time, whatever previous value the wrapper carries or lacks.
C3_EstimateIsLocalWriteTime ==
    (Done /\ behaviorArg = "estimate" /\ isServerTimestamp(value)) =>
        /\ pc = "returned"
        /\ log = <<>>
        /\ result = [t |-> "Timestamp",
                     seconds |-> normalizeNumber(Get(LocalWriteTime(value), "seconds")),
                     nanoseconds |-> normalizeNumber(Get(LocalWriteTime(value), "nanos"))]
        /\ \A prev \in Replaced \cup Pending(1) :
              Visible(convertValue(writer, WithPrevious(value, prev), "estimate")) = Outcome

C3_Witness ==
    /\ pc = "returned"
    /\ behaviorArg = "estimate"
    /\ isServerTimestamp(value)
    /\ DirectPrevious(value) # Undefined
    /\ typeOrder(DirectPrevious(value)) = "RefValue"
    /\ result.t = "Timestamp"
    /\ result.nanoseconds = JsNumber(1)

ParsedName(w) == fromString(w.props.referenceValue.s)

\* the reference name parses into a valid document resource name
ValidName(w) == ParsedName(w).ok /\ isValidResourceName(ParsedName(w).path)

\* the {project, database} identity embedded in a valid reference name
EmbeddedId(w) ==
    DatabaseId(ParsedName(w).path.segments[2], ParsedName(w).path.segments[4])

\* C4: for a reference whose name is a valid document resource name the call
\* returns, and the key it binds is the name's segments without the leading
\* five, whether the embedded identity equals the expected one or not.
C4_KeyIsDatabaseRelativeSuffix ==
    (Done /\ typeOrder(value) = "RefValue" /\ ValidName(value)) =>
        /\ pc = "returned"
        /\ toArray(result.key.path) =
              SubSeq(ParsedName(value).path.segments, 6,
                     Len(ParsedName(value).path.segments))
        /\ \A d \in DatabaseIds \cup {EmbeddedId(value)} :
              LET other == convertDocumentKey(value.props.referenceValue, d)
              IN other.ok /\ other.val = result.key

C4_Witness ==
    /\ pc = "returned"
    /\ value = RefValue(NameNested)
    /\ EmbeddedId(value) # writer.firestore.databaseId
    /\ toArray(result.key.path) = <<S_coll, S_doc, S_coll, S_doc>>

RECURSIVE CountRefs(_, _, _)
RECURSIVE CountRefsIn(_, _, _, _)

\* the number of references with embedded identity id among the values that
\* convertValue(w, behavior) decodes
CountRefs(w, behavior, id) ==
    LET order == typeOrder(w)
    IN CASE order = "RefValue" -> IF EmbeddedId(w) = id THEN 1 ELSE 0
         [] order = "ArrayValue" -> CountRefsIn(ValuesIn(w), DOMAIN ValuesIn(w), behavior, id)
         [] order = "ObjectValue" -> CountRefsIn(FieldsIn(w), DOMAIN FieldsIn(w), behavior, id)
         [] order = "ServerTimestampValue" ->
                IF behavior = "previous" /\ DirectPrevious(w) # Undefined
                THEN CountRefs(DirectPrevious(w), behavior, id)
                ELSE 0
         [] OTHER -> 0

CountRefsIn(children, where, behavior, id) ==
    IF where = {} THEN 0
    ELSE LET x == CHOOSE y \in where : TRUE
         IN CountRefs(children[x], behavior, id)
            + CountRefsIn(children, where \ {x}, behavior, id)

EmbeddedIds == {DatabaseId(project, db) : project \in {S_P, S_Q}, db \in {S_D, S_D2}}

Logged(id) == Cardinality({i \in 1..Len(log) : log[i].found = id})

\* C5: a call that returns has logged one diagnostic for each decoded reference
\* whose embedded identity differs from the expected one, naming that identity
\* and the expected one, and none for a reference whose identity is the
\* expected one.
C5_OneDiagnosticPerForeignReference ==
    pc = "returned" =>
        /\ \A i \in 1..Len(log) :
              /\ log[i].expected = writer.firestore.databaseId
              /\ log[i].found \in EmbeddedIds \ {writer.firestore.databaseId}
        /\ \A id \in EmbeddedIds :
              Logged(id) = IF id = writer.firestore.databaseId THEN 0
                           ELSE CountRefs(value, Behavior, id)

C5_Witness ==
    /\ pc = "returned"
    /\ Len(log) >= 2
    /\ CountRefs(value, Behavior, writer.firestore.databaseId) >= 1

RECURSIVE Faulty(_, _)
\* some value that convertValue(w, behavior) decodes has no known tag or is a
\* reference whose name is not a valid document resource name
Faulty(w, behavior) ==
    LET order == typeOrder(w)
    IN CASE order = "fail" -> TRUE
         [] order = "RefValue" -> ~ValidName(w)
         [] order = "ArrayValue" ->
                \E i \in DOMAIN ValuesIn(w) : Faulty(ValuesIn(w)[i], behavior)
         [] order = "ObjectValue" ->
                \E k \in DOMAIN FieldsIn(w) : Faulty(FieldsIn(w)[k], behavior)
         [] order = "ServerTimestampValue" ->
                /\ behavior = "previous"
                /\ DirectPrevious(w) # Undefined
                /\ Faulty(DirectPrevious(w), behavior)
         [] OTHER -> FALSE

RECURSIVE FullyDecoded(_, _, _)
\* d has a decoded value at the place of every value of w
FullyDecoded(w, d, behavior) ==
    LET order == typeOrder(w)
    IN CASE order = "ArrayValue" ->
                /\ d.t = "array"
                /\ Len(d.elems) = Len(ValuesIn(w))
                /\ \A i \in DOMAIN ValuesIn(w) :
                      FullyDecoded(ValuesIn(w)[i], d.elems[i], behavior)
         [] order = "ObjectValue" ->
                /\ d.t = "object"
                /\ DOMAIN d.props = DOMAIN FieldsIn(w)
                /\ \A k \in DOMAIN FieldsIn(w) :
                      FullyDecoded(FieldsIn(w)[k], d.props[k], behavior)
         [] order = "ServerTimestampValue" ->
                IF behavior = "previous" /\ DirectPrevious(w) # Undefined
                THEN FullyDecoded(DirectPrevious(w), d, behavior)
                ELSE d.t = IF behavior = "estimate" THEN "Timestamp" ELSE "null"
         [] order = "RefValue" ->
                d.t \in {"DocumentReference", "ExpDocumentReference", "LiteDocumentReference"}
         [] order = "BlobValue" -> d.t \in {"Blob", "Bytes"}
         [] order = "fail" -> FALSE
         [] OTHER -> d.t \in {"null", "boolean", "number", "string", "Timestamp", "GeoPoint"}

\* C6: a call returns a fully decoded value or throws and returns nothing; it
\* throws whenever a value it has to decode, at any depth of arrays, maps and
\* followed previous values, has no known tag or is a reference whose name is
\* not a valid document resource name.
C6_AbortsOrDecodesFully ==
    Done =>
        /\ Faulty(value, Behavior) => pc = "thrown"
        /\ pc = "thrown" => result = Undefined
        /\ pc = "returned" => FullyDecoded(value, result, Behavior)

C6_Witness ==
    /\ pc = "thrown"
    /\ result = Undefined
    /\ log # <<>>
    /\ typeOrder(value) = "ArrayValue"
    /\ Len(ValuesIn(value)) = 2
    /\ ~Faulty(ValuesIn(value)[1], Behavior)
    /\ typeOrder(ValuesIn(value)[2]) = "ObjectValue"
    /\ Faulty(ValuesIn(value)[2], Behavior)

\* the logs of the outcomes outs[1..n], one after the other
RECURSIVE LogsOf(_, _)
LogsOf(outs, n) == IF n = 0 THEN <<>> ELSE LogsOf(outs, n - 1) \o outs[n].log

\* C7: an array of N wire values decodes to a sequence of length N whose i-th
\* element is what convertValue gives for the i-th wire value under the same
\* policy; an array without an element list decodes to the empty sequence.
C7_ArrayDecodesElementwise ==
    (Done /\ typeOrder(value) = "ArrayValue") =>
        LET vs == ValuesIn(value)
            outs == [i \in DOMAIN vs |-> convertValue(writer, vs[i], Behavior)]
        IN /\ (\A i \in DOMAIN vs : outs[i].ok) <=> pc = "returned"
           /\ pc = "returned" =>
                 /\ result.t = "array"
                 /\ Len(result.elems) = Len(vs)
                 /\ \A i \in DOMAIN vs : result.elems[i] = outs[i].val
                 /\ log = LogsOf(outs, Len(vs))
           /\ "values" \notin DOMAIN value.props.arrayValue.props =>
                 pc = "returned" /\ result = JsArray(<<>>)

C7_Witness ==
    /\ pc = "returned"
    /\ behaviorArg = "previous"
    /\ typeOrder(value) = "ArrayValue"
    /\ Len(result.elems) = 2
    /\ isServerTimestamp(ValuesIn(value)[2])
    /\ result.elems[2].t = "LiteDocumentReference"
    /\ result.elems[1] # result.elems[2]

\* C8: a map with keys k1..kn decodes to a record with exactly those keys, each
\* mapped to what convertValue gives for the key's wire value under the same
\* policy, in whatever order the keys are enumerated; a map without a field set
\* decodes to the empty record.
C8_MapDecodesKeywise ==
    (Done /\ typeOrder(value) = "ObjectValue") =>
        LET fs == FieldsIn(value)
            outs == [k \in DOMAIN fs |-> convertValue(writer, fs[k], Behavior)]
        IN /\ (\A k \in DOMAIN fs : outs[k].ok) <=> pc = "returned"
           /\ pc = "returned" =>
                 /\ result.t = "object"
                 /\ DOMAIN result.props = DOMAIN fs
                 /\ \A k \in DOMAIN fs : result.props[k] = outs[k].val
                 /\ log = LogsOf([i \in 1..Len(OwnKeys(fs)) |-> outs[OwnKeys(fs)[i]]],
                                 Len(OwnKeys(fs)))
           /\ "fields" \notin DOMAIN value.props.mapValue.props =>
                 pc = "returned" /\ result = JsObject(EmptyProps)

C8_Witness ==
    /\ pc = "returned"
    /\ typeOrder(value) = "ObjectValue"
    /\ enumOrder = <<"b", "a">>
    /\ DOMAIN result.props = {"a", "b"}
    /\ result.props["a"] # result.props["b"]
    /\ log # <<>>

\* C9: null, boolean, number and string wire values decode to their own scalar
\* under every policy; a number decodes to the normalized integer payload when
\* the wire value is the integer variant, zero included, and to the normalized
\* double payload otherwise.
C9_ScalarsDecodeToThemselves ==
    (Done /\ value \in Scalars) =>
        /\ pc = "returned"
        /\ log = <<>>
        /\ "nullValue" \in DOMAIN value.props => result = JsNull
        /\ "booleanValue" \in DOMAIN value.props => result = value.props.booleanValue
        /\ "stringValue" \in DOMAIN value.props => result = value.props.stringValue
        /\ "integerValue" \in DOMAIN value.props =>
              result = normalizeNumber(value.props.integerValue)
        /\ "doubleValue" \in DOMAIN value.props =>
              result = normalizeNumber(value.props.doubleValue)

C9_Witness ==
    /\ pc = "returned"
    /\ value = Wire("integerValue", JsNumber(0))
    /\ result = JsNumber(0)

C9_WitnessDouble ==
    /\ pc = "returned"
    /\ value = Wire("doubleValue", JsNumber(MaxNum))
    /\ result = JsNumber(MaxNum)

RECURSIVE Unflavoured(_)
\* the decoded value with the class of its blobs and reference handles, and
\* the client instance they close over, left out
Unflavoured(d) ==
    CASE d.t \in {"Blob", "Bytes"} -> [t |-> "blob", byteString |-> d.byteString]
      [] d.t \in {"DocumentReference", "ExpDocumentReference", "LiteDocumentReference"} ->
             [t |-> "reference", key |-> d.key, converter |-> d.converter]
      [] d.t = "array" -> JsArray([i \in DOMAIN d.elems |-> Unflavoured(d.elems[i])])
      [] d.t = "object" -> JsObject([k \in DOMAIN d.props |-> Unflavoured(d.props[k])])
      [] OTHER -> d

BlobType(class) == IF class = "UserDataWriter" THEN "Blob" ELSE "Bytes"

ReferenceType(class) ==
    CASE class = "UserDataWriter" -> "DocumentReference"
      [] class = "ExpUserDataWriter" -> "ExpDocumentReference"
      [] class = "LiteUserDataWriter" -> "LiteDocumentReference"

RECURSIVE FlavouredFor(_, _)
\* every blob and reference handle in d is of the writer's own kind, and every
\* handle carries the writer's client instance and a null converter
FlavouredFor(d, w) ==
    CASE d.t \in {"Blob", "Bytes"} -> d.t = BlobType(w.class)
      [] d.t \in {"DocumentReference", "ExpDocumentReference", "LiteDocumentReference"} ->
             /\ d.t = ReferenceType(w.class)
             /\ d.firestore = w.firestore
             /\ d.converter = JsNull
      [] d.t = "array" -> \A i \in DOMAIN d.elems : FlavouredFor(d.elems[i], w)
      [] d.t = "object" -> \A k \in DOMAIN d.props : FlavouredFor(d.props[k], w)
      [] OTHER -> TRUE

\* C10: on the same wire value, policy and expected database identity the
\* three writer classes throw together, log the same diagnostics and return
\* values that are equal except for the class of their blobs and reference
\* handles, which wrap the same bytes and the same key with a null converter.
C10_WritersDifferOnlyInFlavour ==
    Done =>
        /\ pc = "returned" => FlavouredFor(result, writer)
        /\ \A c \in Classes :
              LET other == convertValue(Writer(c, writer.firestore.databaseId),
                                        value, behaviorArg)
              IN /\ other.ok <=> pc = "returned"
                 /\ other.log = log
                 /\ Unflavoured(other.val) = Unflavoured(result)

C10_Witness ==
    /\ pc = "returned"
    /\ writer.class = "LiteUserDataWriter"
    /\ value = ArrayOf(<<Wire("bytesValue", JsString(<<"A", "Q", "I", "=">>)),
                         RefValue(NameNested)>>)
    /\ result.elems[1] = [t |-> "Bytes", byteString |-> ByteString(<<1, 2>>)]
    /\ result.elems[2].t = "LiteDocumentReference"
    /\ log # <<>>

====
